---- MODULE Spec2Model ----
(***************************************************************************)
(* fortunate-json: the lexer and recursive-descent parser of               *)
(* src/fortunate_json/parse.rs and the in-place decode layer of            *)
(* src/fortunate_json.rs.                                                  *)
(*                                                                         *)
(* Bytes and chars are their numeric codes; the input buffer s is a        *)
(* sequence of bytes and pos is the 0-based cursor of the Lexer, so the    *)
(* byte under the cursor is s[pos + 1].  A Rust String is the sequence of  *)
(* its code points.  Inputs are ASCII, where a byte is a char.             *)
(***************************************************************************)
EXTENDS Integers, Sequences, FiniteSets, TLC

VARIABLES s, pos, stack, pc, val, err, out, dv, dty, dkey, res, res0, dpc, dok

vars == <<s, pos, stack, pc, val, err, out, dv, dty, dkey, res, res0, dpc, dok>>

---------------------------------------------------------------------------
(* Bytes *)

\* The byte and char literals of parse.rs.
chTab == 9
chLF == 10
chCR == 13
chSpace == 32
chQuote == 34
chPlus == 43
chComma == 44
chMinus == 45
chDot == 46
chSlash == 47
ch0 == 48
ch9 == 57
chColon == 58
chUpperA == 65
chUpperE == 69
chUpperZ == 90
chOpenBracket == 91
chBackslash == 92
chCloseBracket == 93
chUnderscore == 95
chLowerA == 97
chLowerB == 98
chLowerE == 101
chLowerF == 102
chLowerN == 110
chLowerR == 114
chLowerT == 116
chLowerU == 117
chLowerZ == 122
chOpenBrace == 123
chCloseBrace == 125
chBackspace == 8
chFormFeed == 12

\* The ASCII code of a one-character literal, for writing texts.
Code ==
  ("\t" :> 9) @@ ("\n" :> 10) @@ ("\r" :> 13) @@ (" " :> 32) @@ ("\"" :> 34)
  @@ ("#" :> 35) @@ ("+" :> 43) @@ ("," :> 44) @@ ("-" :> 45) @@ ("." :> 46)
  @@ ("/" :> 47)
  @@ ("0" :> 48) @@ ("1" :> 49) @@ ("2" :> 50) @@ ("3" :> 51) @@ ("4" :> 52)
  @@ ("5" :> 53) @@ ("6" :> 54) @@ ("7" :> 55) @@ ("8" :> 56) @@ ("9" :> 57)
  @@ (":" :> 58)
  @@ ("A" :> 65) @@ ("B" :> 66) @@ ("C" :> 67) @@ ("D" :> 68) @@ ("E" :> 69)
  @@ ("F" :> 70) @@ ("G" :> 71) @@ ("Z" :> 90)
  @@ ("[" :> 91) @@ ("\\" :> 92) @@ ("]" :> 93) @@ ("_" :> 95)
  @@ ("a" :> 97) @@ ("b" :> 98) @@ ("c" :> 99) @@ ("d" :> 100) @@ ("e" :> 101)
  @@ ("f" :> 102) @@ ("g" :> 103) @@ ("l" :> 108) @@ ("n" :> 110)
  @@ ("r" :> 114) @@ ("s" :> 115) @@ ("t" :> 116) @@ ("u" :> 117)
  @@ ("x" :> 120) @@ ("z" :> 122)
  @@ ("{" :> 123) @@ ("}" :> 125)

\* The bytes of a text written as a tuple of one-character strings.
Bytes(lit) == [i \in 1..Len(lit) |-> Code[lit[i]]]

\* Option::None of peek_byte and of Chars::next.
None == -1

---------------------------------------------------------------------------
(* Lexer: cursor primitives *)

eof(buf, p) == p >= Len(buf)

advance_unchecked(buf, p) == p + 1

advance(buf, p) == IF ~eof(buf, p) THEN p + 1 ELSE p

peek_byte(buf, p) == IF eof(buf, p) THEN None ELSE buf[p + 1]

\* The cursor after take_while(pred), pred given as the set of bytes it accepts;
\* the slice the code returns is buf[start_pos..result].
RECURSIVE take_while(_, _, _)
take_while(buf, p, pred) ==
  IF peek_byte(buf, p) \in pred
  THEN take_while(buf, advance(buf, p), pred)
  ELSE p

\* &buf[from..to] with 0-based, end-exclusive bounds.
Slice(buf, from, to) == SubSeq(buf, from + 1, to)

Byte == 0..255

is_whitespace(ch) == ch = chSpace \/ ch = chTab \/ ch = chCR \/ ch = chLF

Whitespace == {ch \in Byte : is_whitespace(ch)}

skip_spaces_only(buf, p) == take_while(buf, p, {chSpace})

skip_whitespace(buf, p) == take_while(buf, p, Whitespace)

is_identifier_start(x) ==
  (x >= chLowerA /\ x <= chLowerZ) \/ (x >= chUpperA /\ x <= chUpperZ)
  \/ x = chUnderscore

is_digit(x) == x >= ch0 /\ x <= ch9

is_identifier_char(x) == is_identifier_start(x) \/ is_digit(x)

Digits == {x \in Byte : is_digit(x)}

IdentifierChars == {x \in Byte : is_identifier_char(x)}

---------------------------------------------------------------------------
(* f32 *)

\* A finite f32 is kept as the decimal it was read from, m * 10^e with m not a
\* multiple of 10 (zero is m = 0, e = 0); "inf" is the overflow result.  -0.0 is
\* kept as 0.0: f32's == (all that Value's PartialEq looks at) equates them.
\* Decimals of up to six significant digits inside the normal range are
\* distinct f32 values, which is the range the inputs below stay in.
F32(k, neg, m, e) == [k |-> k, neg |-> neg, m |-> m, e |-> e]

RECURSIVE NumDigits(_)
NumDigits(m) == IF m < 10 THEN 1 ELSE 1 + NumDigits(m \div 10)

RECURSIVE Pow10(_)
Pow10(n) == IF n = 0 THEN 1 ELSE 10 * Pow10(n - 1)

\* The first nine digits of the d-digit number m.
Lead9(m, d) == IF d <= 9 THEN m * Pow10(9 - d) ELSE m \div Pow10(d - 9)

\* Rounding of the decimal m * 10^e, m of d digits and no multiple of 10, to
\* f32: values of at least 2^128 - 2^103 = 3.40282356...e38 become infinity,
\* values of at most 2^-150 = 7.00649232...e-46 become zero.
RoundNormal(m, e, d) ==
  IF d + e > 39 \/ (d + e = 39 /\ Lead9(m, d) > 340282356)
  THEN F32("inf", FALSE, 0, 0)
  ELSE IF d + e < -45 \/ (d + e = -45 /\ Lead9(m, d) <= 700649232)
  THEN F32("fin", FALSE, 0, 0)
  ELSE F32("fin", FALSE, m, e)

RECURSIVE RoundF32(_, _)
RoundF32(m, e) ==
  IF m = 0 THEN F32("fin", FALSE, 0, 0)
  ELSE IF m % 10 = 0 THEN RoundF32(m \div 10, e + 1)
  ELSE RoundNormal(m, e, NumDigits(m))

\* Unary minus on f32.
NegF32(x) ==
  IF x.k = "fin" /\ x.m = 0 THEN x ELSE [x EXCEPT !.neg = ~x.neg]

\* The value of a run of decimal digits.
RECURSIVE DigitsValue(_)
DigitsValue(ds) ==
  IF ds = <<>> THEN 0
  ELSE 10 * DigitsValue(SubSeq(ds, 1, Len(ds) - 1)) + (ds[Len(ds)] - ch0)

\* str::parse::<f32> on the slices lex_number takes (digits, '.', 'e', 'E',
\* '+', '-' only): Number ::= (Digit+ | Digit+ '.' Digit* | Digit* '.' Digit+) Exp?,
\* Exp ::= ('e' | 'E') Sign? Digit+.  Err(ParseFloatError) is [ok |-> FALSE].
\* int and frac are the digits before and after the '.', i2 the cursor after
\* them, i3 the cursor of the exponent's digits and i4 the cursor after them
\* (i2 = i3 = i4 when there is no exponent), expneg its sign.
f32_of(sl, int, frac, i2, i3, i4, expneg) ==
  IF Len(int) + Len(frac) = 0 \/ (i2 # i4 /\ i3 = i4) \/ i4 # Len(sl)
  THEN [ok |-> FALSE, v |-> F32("fin", FALSE, 0, 0)]
  ELSE [ok |-> TRUE,
        v |-> RoundF32(DigitsValue(int \o frac),
                       (IF expneg THEN 0 - DigitsValue(Slice(sl, i3, i4))
                        ELSE DigitsValue(Slice(sl, i3, i4))) - Len(frac))]

f32_exponent(sl, int, frac, i2, i3) ==
  f32_of(sl, int, frac, i2, i3, take_while(sl, i3, Digits),
         peek_byte(sl, i2 + 1) = chMinus)

f32_mantissa(sl, i1, i2) ==
  IF peek_byte(sl, i2) \in {chLowerE, chUpperE}
  THEN f32_exponent(sl, Slice(sl, 0, i1), Slice(sl, i1 + 1, i2), i2,
                    IF peek_byte(sl, i2 + 1) \in {chMinus, chPlus}
                    THEN i2 + 2 ELSE i2 + 1)
  ELSE f32_of(sl, Slice(sl, 0, i1), Slice(sl, i1 + 1, i2), i2, i2, i2, FALSE)

f32_int(sl, i1) ==
  IF peek_byte(sl, i1) = chDot
  THEN f32_mantissa(sl, i1, take_while(sl, i1 + 1, Digits))
  ELSE f32_mantissa(sl, i1, i1)

parse_f32(sl) == f32_int(sl, take_while(sl, 0, Digits))

---------------------------------------------------------------------------
(* Lexer: numbers, escapes, tokens *)

\* Result<_, ParseError> of a lexer operation, with the cursor it leaves: r is
\* "Ok", "Err" (msg is the ParseError's text, without its formatted argument)
\* or "panic" (an unwrap() on None / Err aborted the call).
LexOk(tok, p) == [r |-> "Ok", tok |-> tok, pos |-> p, msg |-> ""]

LexErr(msg, p) == [r |-> "Err", tok |-> [k |-> "None", v |-> <<>>], pos |-> p, msg |-> msg]

LexPanic(p) == [r |-> "panic", tok |-> [k |-> "None", v |-> <<>>], pos |-> p, msg |-> ""]

Token(k, v) == [k |-> k, v |-> v]

\* lex_number from the slice's end: the parse of the slice and the sign.
lex_number_value(negative, parsed, end_effset) ==
  IF ~parsed.ok THEN LexPanic(end_effset)
  ELSE LexOk(Token("Number", IF negative THEN NegF32(parsed.v) ELSE parsed.v),
             end_effset)

lex_number_slice(buf, negative, start_offset, end_effset) ==
  lex_number_value(negative, parse_f32(Slice(buf, start_offset, end_effset)),
                   end_effset)

\* The optional exponent: 'e' or 'E', an optional sign, a digit run.
lex_number_exponent(buf, p) ==
  IF peek_byte(buf, p) = chLowerE \/ peek_byte(buf, p) = chUpperE
  THEN take_while(buf,
                  IF peek_byte(buf, advance(buf, p)) = chMinus
                     \/ peek_byte(buf, advance(buf, p)) = chPlus
                  THEN advance(buf, advance(buf, p))
                  ELSE advance(buf, p),
                  Digits)
  ELSE p

\* The optional '.' and digit run.
lex_number_fraction(buf, p) ==
  IF peek_byte(buf, p) = chDot
  THEN take_while(buf, advance(buf, p), Digits)
  ELSE p

\* lex_number after the optional '-'.
lex_number_digits(buf, negative, start_offset) ==
  IF eof(buf, start_offset)
  THEN LexErr("Unexpected EOF while parsing number", start_offset)
  ELSE lex_number_slice(
         buf, negative, start_offset,
         lex_number_exponent(
           buf, lex_number_fraction(buf, take_while(buf, start_offset, Digits))))

lex_number(buf, p) ==
  IF peek_byte(buf, p) = chMinus
  THEN lex_number_digits(buf, TRUE, advance(buf, p))
  ELSE lex_number_digits(buf, FALSE, p)

\* char::to_ascii_uppercase.
to_ascii_uppercase(d) == IF d >= chLowerA /\ d <= chLowerZ THEN d - 32 ELSE d

DIGITS == Bytes(<<"0", "1", "2", "3", "4", "5", "6", "7", "8", "9", "0",
                  "A", "B", "C", "D", "E", "F">>)

\* str::find(char): the 0-based index of the first occurrence, or None.
find(str, c) ==
  IF \E i \in 1..Len(str) : str[i] = c
  THEN (CHOOSE i \in 1..Len(str) : str[i] = c /\ \A j \in 1..(i - 1) : str[j] # c) - 1
  ELSE None

\* Ok(i) is i >= 0; Err("Bad hex digit ...") is None.
parse_hex_digit(d) == find(DIGITS, to_ascii_uppercase(d))

\* Bitwise or of two naturals.
RECURSIVE BitOr(_, _)
BitOr(x, y) ==
  IF x = 0 THEN y
  ELSE IF y = 0 THEN x
  ELSE 2 * BitOr(x \div 2, y \div 2) + (IF x % 2 = 1 \/ y % 2 = 1 THEN 1 ELSE 0)

\* x << n on values that stay inside the word.
RECURSIVE Shl(_, _)
Shl(x, n) == IF n = 0 THEN x ELSE Shl(2 * x, n - 1)

\* The value parse_hex puts together from its four digit values.
hex_value(a1, a2, a3, a4) ==
  BitOr(BitOr(BitOr(Shl(a1, 24), Shl(a2, 16)), Shl(a3, 8)), a4)

hex_digits(a1, a2, a3, a4) ==
  IF a1 = None \/ a2 = None \/ a3 = None \/ a4 = None
  THEN None
  ELSE hex_value(a1, a2, a3, a4)

\* Ok(u32) is the number; Err(ParseError) is None.
parse_hex(d1, d2, d3, d4) ==
  hex_digits(parse_hex_digit(d1), parse_hex_digit(d2), parse_hex_digit(d3),
             parse_hex_digit(d4))

\* char::from_u32: None for a surrogate and above U+10FFFF.
from_u32(n) == IF n > 1114111 \/ (n >= 55296 /\ n <= 57343) THEN None ELSE n

StrOk(str) == [r |-> "Ok", str |-> str, msg |-> ""]

StrErr(msg) == [r |-> "Err", str |-> <<>>, msg |-> msg]

StrPanic == [r |-> "panic", str |-> <<>>, msg |-> ""]

\* gch on the end of the chars: the Err the `?` returns from parse_string.
gch_none_unwrap == StrPanic

gch_none == StrErr("Unexpected EOF when parsing unicode escape in string literal")

\* What an escape other than \u pushes for the char n after the backslash.
escape(n) ==
  CASE n = chQuote -> chQuote
    [] n = chBackslash -> chBackslash
    [] n = chSlash -> chSlash
    [] n = chLowerB -> chBackspace
    [] n = chLowerF -> chFormFeed
    [] n = chLowerN -> chLF
    [] n = chLowerR -> chCR
    [] n = chLowerT -> chTab
    [] OTHER -> n

\* The escape-resolving pass over the literal's body; i is the 1-based index
\* of the next char of chars, acc the String built so far.
RECURSIVE parse_string_from(_, _, _)
\* The 'u' arm, the four chars read: h is parse_hex of them.
unicode_escape(st, i, acc, h) ==
  IF h = None THEN StrErr("Bad hex digit '{}' in unicode escape")
  ELSE IF from_u32(h) = None THEN StrPanic
  ELSE parse_string_from(st, i + 6, Append(acc, from_u32(h)))

parse_string_from(st, i, acc) ==
  IF i > Len(st) THEN StrOk(acc)
  ELSE IF st[i] # chBackslash THEN parse_string_from(st, i + 1, Append(acc, st[i]))
  ELSE IF i + 1 > Len(st) THEN StrPanic
  ELSE IF st[i + 1] # chLowerU
  THEN parse_string_from(st, i + 2, Append(acc, escape(st[i + 1])))
  ELSE IF i + 5 > Len(st) THEN gch_none
  ELSE unicode_escape(st, i, acc,
                      parse_hex(st[i + 2], st[i + 3], st[i + 4], st[i + 5]))

parse_string(sl) == parse_string_from(sl, 1, <<>>)

\* The loop of the string-literal arm of token, from cursor p: the cursor of
\* the closing quote, or the error it returns.
RECURSIVE string_extent(_, _)
string_extent(buf, p) ==
  IF peek_byte(buf, p) = None
  THEN LexErr("Unexpected end of file while parsing string literal", p)
  ELSE IF peek_byte(buf, p) = chLF
  THEN LexErr("Unexpected newline while parsing string literal", p)
  ELSE IF peek_byte(buf, p) = chBackslash
  THEN IF peek_byte(buf, advance(buf, p)) = None
       THEN LexErr("Unexpected end of file while parsing string literal escape sequence",
                   advance(buf, p))
       ELSE string_extent(buf, advance(buf, p))
  ELSE IF peek_byte(buf, p) = chQuote THEN LexOk(Token("None", <<>>), p)
  ELSE string_extent(buf, advance(buf, p))

\* Token::String(Self::parse_string(res)?), the cursor already after the quote.
string_token(str, p) ==
  IF str.r = "Err" THEN LexErr(str.msg, p)
  ELSE IF str.r = "panic" THEN LexPanic(p)
  ELSE LexOk(Token("String", str.str), p)

\* The string-literal arm once the loop has ended in ext.
string_literal(buf, start_pos, ext) ==
  IF ext.r # "Ok" THEN ext
  ELSE string_token(parse_string(Slice(buf, start_pos, ext.pos)),
                    advance(buf, ext.pos))

identifier_unconsumed(buf, start_pos, end_pos) ==
  LexOk(Token("Identifier", Slice(buf, start_pos, end_pos)), start_pos)

identifier(buf, start_pos, end_pos) ==
  LexOk(Token("Identifier", Slice(buf, start_pos, end_pos)), end_pos)

\* The match of token on the byte under the cursor.
token_match(buf, p, byte) ==
  IF byte = chOpenBracket THEN LexOk(Token("OpenBracket", <<>>), advance(buf, p))
  ELSE IF byte = chCloseBracket THEN LexOk(Token("CloseBracket", <<>>), advance(buf, p))
  ELSE IF byte = chComma THEN LexOk(Token("Comma", <<>>), advance(buf, p))
  ELSE IF byte = chColon THEN LexOk(Token("Colon", <<>>), advance(buf, p))
  ELSE IF byte = chOpenBrace THEN LexOk(Token("OpenBrace", <<>>), advance(buf, p))
  ELSE IF byte = chCloseBrace THEN LexOk(Token("CloseBrace", <<>>), advance(buf, p))
  ELSE IF byte = chMinus \/ is_digit(byte) THEN lex_number(buf, p)
  ELSE IF byte = chQuote
  THEN string_literal(buf, advance(buf, p), string_extent(buf, advance(buf, p)))
  ELSE IF is_identifier_start(byte)
  THEN identifier(buf, p, take_while(buf, p, IdentifierChars))
  ELSE LexErr("Unexpected character '{}'", p)

\* The whitespace skipped after the token.
token_trailing_kept(buf, m) == m

token_trailing(buf, m) ==
  IF m.r = "Ok" THEN [m EXCEPT !.pos = skip_whitespace(buf, m.pos)] ELSE m

\* token after the leading whitespace.
token_at(buf, p) ==
  IF eof(buf, p) THEN LexErr("Unexpected end of file", p)
  ELSE token_trailing(buf, token_match(buf, p, peek_byte(buf, p)))

token(buf, p) == token_at(buf, skip_whitespace(buf, p))

---------------------------------------------------------------------------
(* Value *)

Null == [t |-> "Null"]

Boolean(x) == [t |-> "Boolean", b |-> x]

Number(x) == [t |-> "Number", n |-> x]

String(str) == [t |-> "String", s |-> str]

Array(arr) == [t |-> "Array", a |-> arr]

\* A HashMap<String, Value> is a function from its keys to their values.
Object(hm) == [t |-> "Object", o |-> hm]

\* HashMap::new().
EmptyMap == [k \in {} |-> Null]

\* HashMap::insert: the entry of key is replaced when there is one.
insert_if_absent(hm, key, value) ==
  [k \in (DOMAIN hm) \cup {key} |-> IF k \in DOMAIN hm THEN hm[k] ELSE value]

insert(hm, key, value) ==
  [k \in (DOMAIN hm) \cup {key} |-> IF k = key THEN value ELSE hm[k]]

NULL_TOKEN == Bytes(<<"n", "u", "l", "l">>)

TRUE_TOKEN == Bytes(<<"t", "r", "u", "e">>)

FALSE_TOKEN == Bytes(<<"f", "a", "l", "s", "e">>)

---------------------------------------------------------------------------
(* Parser *)

\* The parser's state between two calls of Lexer::token: the cursor, the open
\* parse_ activations (one frame per array or object being built, innermost
\* last), where control stands, and what parse returned once it has.
\*   pc = "value"    parse_ is about to read the first token of a value
\*        "arr_sep"  the array arm is about to read ',' or ']'
\*        "colon"    the object arm is about to read ':'
\*        "obj_sep"  the object arm is about to read ',' or '}'
\*        "finish"   parse_ returned Ok to parse
\*        "Ok" / "Err" / "panic"  parse has returned (or aborted)
PState(p, stk, c, v, e) == [pos |-> p, stack |-> stk, pc |-> c, val |-> v, err |-> e]

ArrFrame == [k |-> "arr", arr |-> <<>>, obj |-> EmptyMap, at |-> "elem", key |-> <<>>]

ObjFrame == [k |-> "obj", arr |-> <<>>, obj |-> EmptyMap, at |-> "key", key |-> <<>>]

\* Err(ParseError(msg)) leaving parse through the `?`s: every activation ends.
Fail(msg, p) == PState(p, <<>>, "Err", Null, msg)

Panic(p) == PState(p, <<>>, "panic", Null, "")

\* A lexer failure as the parser's.
LexFail(t) == IF t.r = "panic" THEN Panic(t.pos) ELSE Fail(t.msg, t.pos)

\* parse_ returns Ok(v) to its caller: to parse when no activation is open, to
\* the array arm (arr.push), or to the object arm at a key (which must be a
\* String) or at a member value (obj.insert).
Return(v, stk, p) ==
  IF stk = <<>> THEN PState(p, stk, "finish", v, "")
  ELSE IF stk[Len(stk)].k = "arr"
  THEN PState(p, [stk EXCEPT ![Len(stk)].arr = Append(@, v)], "arr_sep", Null, "")
  ELSE IF stk[Len(stk)].at = "key"
  THEN IF v.t = "String"
       THEN PState(p, [stk EXCEPT ![Len(stk)].key = v.s], "colon", Null, "")
       ELSE Fail("Object keys must be strings.  Got {:?}", p)
  ELSE PState(p, [stk EXCEPT ![Len(stk)].obj = insert(@, stk[Len(stk)].key, v)],
              "obj_sep", Null, "")

\* parse_: the match on the first token of a value.
parse_match(t, stk) ==
  IF t.r # "Ok" THEN LexFail(t)
  ELSE IF t.tok.k = "Identifier" /\ t.tok.v = NULL_TOKEN
  THEN Return(Null, stk, t.pos)
  ELSE IF t.tok.k = "Identifier" /\ t.tok.v = TRUE_TOKEN
  THEN Return(Boolean(TRUE), stk, t.pos)
  ELSE IF t.tok.k = "Identifier" /\ t.tok.v = FALSE_TOKEN
  THEN Return(Boolean(FALSE), stk, t.pos)
  ELSE IF t.tok.k = "String" THEN Return(String(t.tok.v), stk, t.pos)
  ELSE IF t.tok.k = "Number" THEN Return(Number(t.tok.v), stk, t.pos)
  ELSE IF t.tok.k = "OpenBracket"
  THEN PState(t.pos, Append(stk, ArrFrame), "value", Null, "")
  ELSE IF t.tok.k = "OpenBrace"
  THEN PState(t.pos, Append(stk, ObjFrame), "value", Null, "")
  ELSE Fail("Unknown token '{:?}'", t.pos)

parse_value(buf, st) == parse_match(token(buf, st.pos), st.stack)

\* The array arm after an element: ']' ends the array, ',' starts the next.
array_next(t, stk, n) ==
  IF t.r # "Ok" THEN LexFail(t)
  ELSE IF t.tok.k = "CloseBracket"
  THEN Return(Array(stk[n].arr), SubSeq(stk, 1, n - 1), t.pos)
  ELSE IF t.tok.k = "Comma"
  THEN PState(t.pos, stk, "value", Null, "")
  ELSE Fail("Expected ',' or ']' but got '{:?}'", t.pos)

array_sep(buf, st) == array_next(token(buf, st.pos), st.stack, Len(st.stack))

\* The object arm after a key.
colon_next_unchecked(t, stk, n) ==
  IF t.r # "Ok" THEN LexFail(t)
  ELSE PState(t.pos, [stk EXCEPT ![n].at = "val"], "value", Null, "")

colon_next(t, stk, n) ==
  IF t.r # "Ok" THEN LexFail(t)
  ELSE IF t.tok.k # "Colon" THEN Fail("Expected colon but got '{:?}'", t.pos)
  ELSE PState(t.pos, [stk EXCEPT ![n].at = "val"], "value", Null, "")

object_colon(buf, st) == colon_next(token(buf, st.pos), st.stack, Len(st.stack))

\* The object arm after a member: '}' ends the object, ',' starts the next key.
object_next(t, stk, n) ==
  IF t.r # "Ok" THEN LexFail(t)
  ELSE IF t.tok.k = "CloseBrace"
  THEN Return(Object(stk[n].obj), SubSeq(stk, 1, n - 1), t.pos)
  ELSE IF t.tok.k # "Comma"
  THEN Fail("Expected comma or brace but got '{:?}'", t.pos)
  ELSE PState(t.pos, [stk EXCEPT ![n].at = "key"], "value", Null, "")

object_sep(buf, st) == object_next(token(buf, st.pos), st.stack, Len(st.stack))

\* parse, after parse_ returned Ok(v).
parse_end_unchecked(buf, p, v) == PState(p, <<>>, "Ok", v, "")

parse_end(buf, p, v) ==
  IF ~eof(buf, p)
  THEN Fail("Extra goop at the end of the file: {:?}", p)
  ELSE PState(p, <<>>, "Ok", v, "")

parse_finish(buf, st) == parse_end(buf, skip_whitespace(buf, st.pos), st.val)

\* Lexer::new(s.as_bytes()) and the call of parse_.
parse_start == PState(0, <<>>, "value", Null, "")

Returned(c) == c \in {"Ok", "Err", "panic"}

\* One step of parse from state st.
parse_step(buf, st) ==
  CASE st.pc = "value" -> parse_value(buf, st)
    [] st.pc = "arr_sep" -> array_sep(buf, st)
    [] st.pc = "colon" -> object_colon(buf, st)
    [] st.pc = "obj_sep" -> object_sep(buf, st)
    [] st.pc = "finish" -> parse_finish(buf, st)
    [] OTHER -> st

\* parse(text): the state parse ends in.
RECURSIVE parse_from(_, _)
parse_from(buf, st) ==
  IF Returned(st.pc) THEN st ELSE parse_from(buf, parse_step(buf, st))

parse(buf) == parse_from(buf, parse_start)

---------------------------------------------------------------------------
(* Decode layer: FromJSON::from_json(v, &mut res) *)

\* The target types: String, f32, Vec<T> and HashMap<String, V>, and the
\* unsigned integer and Option<T> of the decode contract.
TString == [c |-> "String"]

Tf32 == [c |-> "f32"]

TVec(of) == [c |-> "Vec", of |-> of]

THashMap(of) == [c |-> "HashMap", of |-> of]

Tu32 == [c |-> "u32"]

TOption(of) == [c |-> "Option", of |-> of]

\* Option<T>: None is the empty sequence, Some(x) the sequence of x alone.
Absent == <<>>

Present(x) == <<x>>

\* Default::default() of a target type.
Default(ty) ==
  IF ty.c = "f32" THEN F32("fin", FALSE, 0, 0)
  ELSE IF ty.c = "u32" THEN 0
  ELSE IF ty.c = "HashMap" THEN EmptyMap
  ELSE <<>>

\* Result<(), DecodeError> with the target as the call leaves it.
Decoded_always_ok(ok, target) == [ok |-> TRUE, res |-> target]

Decoded(ok, target) == [ok |-> ok, res |-> target]

as_string(v) == v.t = "String"

as_float_never(v) == FALSE

as_float(v) == v.t = "Number"

as_array(v) == v.t = "Array"

as_object(v) == v.t = "Object"

\* Vec::clear.
clear_keeps(target) == target

clear(target) == <<>>

RECURSIVE from_json(_, _, _)
\* The loop of Vec<T>::from_json over a[i..], target holding the elements pushed.
RECURSIVE vec_elems(_, _, _, _)
vec_elems(of, a, i, target) ==
  IF i > Len(a) THEN Decoded(TRUE, target)
  ELSE LET e == from_json(of, a[i], Default(of))
       IN IF ~e.ok THEN Decoded(FALSE, target)
          ELSE vec_elems(of, a, i + 1, Append(target, e.res))

from_json(ty, v, target) ==
  CASE ty.c = "String" ->
         IF as_string(v) THEN Decoded(TRUE, v.s) ELSE Decoded(FALSE, target)
    [] ty.c = "f32" ->
         IF as_float(v) THEN Decoded(TRUE, v.n) ELSE Decoded(FALSE, target)
    [] ty.c = "Vec" ->
         IF as_array(v) THEN vec_elems(ty.of, v.a, 1, clear(target)) ELSE Decoded(FALSE, target)

\* HashMap::clear.
clear_map(target) == EmptyMap

\* The loop of HashMap<String, V>::from_json over the entries of hm, visited
\* in the order `order`; String's FromStr never fails.
RECURSIVE map_entries(_, _, _, _, _)
map_entries(of, hm, order, i, target) ==
  IF i > Len(order) THEN Decoded(TRUE, target)
  ELSE LET value == from_json(of, hm[order[i]], Default(of))
       IN IF ~value.ok THEN Decoded(FALSE, target)
          ELSE map_entries(of, hm, order, i + 1, insert(target, order[i], value.res))

\* The orders a HashMap may be iterated in: every arrangement of its keys.
iter(hm) ==
  {order \in [1..Cardinality(DOMAIN hm) -> DOMAIN hm] :
     \A i, j \in DOMAIN order : i # j => order[i] # order[j]}

\* Every outcome HashMap<String, V>::from_json can have.
map_from_json(of, v, target) ==
  IF as_object(v)
  THEN {map_entries(of, v.o, order, 1, clear_map(target)) : order \in iter(v.o)}
  ELSE {Decoded(FALSE, target)}

\* An f32 that equals its own floor, and its cast to u32 (negative values
\* saturate to 0).  f32 holds every integer below 2^24 exactly, which is the
\* range the values below stay in.
is_integral(x) == x.k = "fin" /\ x.e >= 0

as_u32(x) == IF x.neg THEN 0 ELSE x.m * Pow10(x.e)

\* The unsigned integer of the decode contract.
u32_from_json(v, target) ==
  IF as_float(v) /\ is_integral(v.n) THEN Decoded(TRUE, as_u32(v.n))
  ELSE Decoded(FALSE, target)

\* Option<T> of the decode contract: null is "absent", anything else is the
\* inner type's decode, wrapped as "present".
option_wrap(inner, target) ==
  IF inner.ok THEN Decoded(TRUE, Present(inner.res)) ELSE Decoded(FALSE, target)

option_from_json(of, v, target) ==
  IF v.t = "Null" THEN Decoded(TRUE, Absent)
  ELSE option_wrap(from_json(of, v, Default(of)), target)

\* T::from_json(v, res) for the T of a field.
T_from_json(ty, v, target) ==
  IF ty.c = "u32" THEN u32_from_json(v, target)
  ELSE IF ty.c = "Option" THEN option_from_json(ty.of, v, target)
  ELSE from_json(ty, v, target)

\* Every outcome T::from_json(v, res) can have.
from_json_any(ty, v, target) ==
  IF ty.c = "HashMap" THEN map_from_json(ty.of, v, target)
  ELSE {T_from_json(ty, v, target)}

\* extract_field: a missing key is a DecodeError.
extract_field(ty, o, key, target) ==
  IF key \notin DOMAIN o THEN Decoded(FALSE, target)
  ELSE T_from_json(ty, o[key], target)

\* extract_optional_field: a missing key leaves the target alone.
extract_optional_field_strict(ty, o, key, target) ==
  extract_field(ty, o, key, target)

extract_optional_field(ty, o, key, target) ==
  IF key \notin DOMAIN o THEN Decoded(TRUE, target)
  ELSE T_from_json(ty, o[key], target)

\* decode::<T>(text) once parse has returned st: the ParseError or the
\* DecodeError as a JSONError, or the decoded T.
NoOut == [r |-> "none", e |-> "", v |-> <<>>]

decode(ty, st) ==
  IF st.pc = "Err" THEN [r |-> "ParseError", e |-> st.err, v |-> <<>>]
  ELSE LET d == from_json(ty, st.val, Default(ty))
       IN IF d.ok THEN [r |-> "Ok", e |-> "", v |-> d.res]
          ELSE [r |-> "DecodeError", e |-> "", v |-> <<>>]

---------------------------------------------------------------------------
(* Input texts *)

MaxPieces == 4

MaxStrPieces == 4

MaxNumBytes == 4

MaxMembers == 2

\* All sequences over S of length at most n.
SeqsUpTo(S, n) == UNION {[1..k -> S] : k \in 0..n}

RECURSIVE Concat(_)
Concat(ss) == IF ss = <<>> THEN <<>> ELSE Head(ss) \o Concat(Tail(ss))

Quoted(body) == Bytes(<<"\"">>) \o body \o Bytes(<<"\"">>)

\* Texts put together from punctuation, literals and blanks in any order.
StructPieces ==
  { Bytes(<<"[">>), Bytes(<<"]">>), Bytes(<<"{">>), Bytes(<<"}">>),
    Bytes(<<":">>), Bytes(<<",">>), Bytes(<<" ">>), Bytes(<<"\n">>),
    TRUE_TOKEN, NULL_TOKEN, Bytes(<<"1">>), Bytes(<<"\"", "a", "\"">>),
    Bytes(<<"#">>) }

StructInputs == {Concat(ps) : ps \in SeqsUpTo(StructPieces, MaxPieces)}

\* An opening quote followed by pieces of string-literal bodies.
StrPieces ==
  { Bytes(<<"\"">>), Bytes(<<"\\">>), Bytes(<<"a">>), Bytes(<<"u">>),
    Bytes(<<"n">>), Bytes(<<"0">>), Bytes(<<"0", "0">>), Bytes(<<"G">>),
    Bytes(<<"\n">>), Bytes(<<" ">>) }

StrInputs ==
  {Bytes(<<"\"">>) \o Concat(ps) : ps \in SeqsUpTo(StrPieces, MaxStrPieces)}

\* Number-like texts.
NumBytes == {Code["-"], Code["+"], Code["0"], Code["1"], Code["5"], Code["."], Code["e"], Code["E"], Code[" "]}

NumInputs == SeqsUpTo(NumBytes, MaxNumBytes)

\* A string literal holding one \uXXXX escape.
HexBytes == {Code["0"], Code["1"], Code["4"], Code["9"], Code["a"], Code["A"], Code["f"], Code["F"], Code["g"]}

HexInputs ==
  {Quoted(Bytes(<<"\\", "u">>) \o ds) : ds \in [1..4 -> HexBytes]}

\* Object literals of up to MaxMembers + 1 members over two keys.
MemberKeys == {Bytes(<<"a">>), Bytes(<<"b">>)}

MemberTexts == {TRUE_TOKEN, NULL_TOKEN, Bytes(<<"1">>), Bytes(<<"[", "1", "]">>)}

Members == SeqsUpTo(MemberKeys \X MemberTexts, MaxMembers + 1) \ {<<>>}

RECURSIVE MembersText(_)
MembersText(ms) ==
  IF ms = <<>> THEN <<>>
  ELSE Quoted(ms[1][1]) \o Bytes(<<":">>) \o ms[1][2]
       \o (IF Len(ms) > 1 THEN Bytes(<<",">>) ELSE <<>>) \o MembersText(Tail(ms))

ObjectText(ms) == Bytes(<<"{">>) \o MembersText(ms) \o Bytes(<<"}">>)

ObjInputs == {ObjectText(ms) : ms \in Members}

\* A token sequence with a run of blanks (or none) at every boundary.
Gaps == {<<>>, Bytes(<<" ">>), Bytes(<<"\t", "\r", "\n">>)}

TokenSeqs ==
  { <<Bytes(<<"[">>), TRUE_TOKEN, Bytes(<<",">>), FALSE_TOKEN, Bytes(<<"]">>)>>,
    <<Bytes(<<"{">>), Bytes(<<"\"", "a", " ", "\"">>), Bytes(<<":">>),
      Bytes(<<"-", "1", ".", "5">>), Bytes(<<"}">>)>>,
    <<Bytes(<<"[">>), Bytes(<<"]">>)>>,
    <<Bytes(<<"{">>), Bytes(<<"}">>)>>,
    <<NULL_TOKEN>> }

RECURSIVE Spaced(_, _, _)
Spaced(toks, g, i) ==
  IF i > Len(toks) THEN g[i]
  ELSE g[i] \o toks[i] \o Spaced(toks, g, i + 1)

GapInputs ==
  UNION {{Spaced(toks, g, 1) : g \in [1..(Len(toks) + 1) -> Gaps]} : toks \in TokenSeqs}

\* One-member object literals with any value as the key, with or without the
\* colon, and any token after the member.
KeyTexts ==
  { Bytes(<<"\"", "a", "\"">>), Bytes(<<"1">>), NULL_TOKEN, TRUE_TOKEN,
    Bytes(<<"[", "1", "]">>), Bytes(<<"{", "\"", "a", "\"", ":", "1", "}">>) }

ColonTexts == {Bytes(<<":">>), <<>>, Bytes(<<",">>), Bytes(<<" ", "1">>)}

AfterMemberTexts ==
  { Bytes(<<"}">>), Bytes(<<",">>), Bytes(<<"]">>), Bytes(<<":">>),
    Bytes(<<" ", "1">>), NULL_TOKEN, Bytes(<<"\"", "a", "\"">>), Bytes(<<"[">>) }

ObjErrInputs ==
  { Bytes(<<"{">>) \o k \o c \o Bytes(<<"1">>) \o a :
      k \in KeyTexts, c \in ColonTexts, a \in AfterMemberTexts }

Inputs == StructInputs \cup StrInputs \cup NumInputs \cup HexInputs
          \cup ObjInputs \cup GapInputs \cup ObjErrInputs

---------------------------------------------------------------------------
(* parse as a state machine: one action per call of Lexer::token *)

Cur == PState(pos, stack, pc, val, err)

Becomes(st) ==
  /\ pos' = st.pos
  /\ stack' = st.stack
  /\ pc' = st.pc
  /\ val' = st.val
  /\ err' = st.err

decodeVars == <<dv, dty, dkey, res, res0, dpc, dok>>

InitParse ==
  /\ s \in Inputs
  /\ pos = parse_start.pos
  /\ stack = parse_start.stack
  /\ pc = parse_start.pc
  /\ val = parse_start.val
  /\ err = parse_start.err
  /\ out = NoOut
  /\ dv = Null
  /\ dty = [c |-> "None"]
  /\ dkey = <<>>
  /\ res = <<>>
  /\ res0 = <<>>
  /\ dpc = "idle"
  /\ dok = FALSE

ParseValue ==
  /\ pc = "value"
  /\ Becomes(parse_value(s, Cur))
  /\ UNCHANGED <<s, out, decodeVars>>

ArraySep ==
  /\ pc = "arr_sep"
  /\ Becomes(array_sep(s, Cur))
  /\ UNCHANGED <<s, out, decodeVars>>

ObjectColon ==
  /\ pc = "colon"
  /\ Becomes(object_colon(s, Cur))
  /\ UNCHANGED <<s, out, decodeVars>>

ObjectSep ==
  /\ pc = "obj_sep"
  /\ Becomes(object_sep(s, Cur))
  /\ UNCHANGED <<s, out, decodeVars>>

ParseFinish ==
  /\ pc = "finish"
  /\ Becomes(parse_finish(s, Cur))
  /\ UNCHANGED <<s, out, decodeVars>>

\* decode::<T>(text), from the return of its call of parse.
Decode ==
  /\ pc \in {"Ok", "Err"}
  /\ out = NoOut
  /\ \E ty \in {TString, Tf32} : out' = decode(ty, Cur)
  /\ UNCHANGED <<s, pos, stack, pc, val, err, decodeVars>>

NextParse ==
  ParseValue \/ ArraySep \/ ObjectColon \/ ObjectSep \/ ParseFinish \/ Decode

Spec == InitParse /\ [][NextParse]_vars

---------------------------------------------------------------------------
(* from_json as a call on a target the caller already holds *)

MaxArray == 3

DecodePrims ==
  { Null, Boolean(TRUE), Number(F32("fin", FALSE, 1, 0)),
    Number(F32("fin", TRUE, 15, -1)), Number(F32("fin", FALSE, 1, 1)),
    String(Bytes(<<"a">>)), String(<<>>) }

\* The objects over the keys "a" and "b".
DecodeObjects ==
  UNION {{Object(hm) : hm \in [ks -> DecodePrims]} : ks \in SUBSET MemberKeys}

DecodeValues ==
  DecodePrims
  \cup {Array(a) : a \in SeqsUpTo(DecodePrims, MaxArray)}
  \cup {Array(<<Array(a), Array(c)>>) : a, c \in SeqsUpTo(DecodePrims, 1)}
  \cup DecodeObjects

\* The types of a field of a user-defined aggregate.
FieldTypes ==
  { TString, Tf32, TVec(Tf32), TVec(TString), TVec(TVec(Tf32)),
    Tu32, TOption(TString), TOption(Tf32) }

DecodeTypes == FieldTypes \cup {THashMap(Tf32), THashMap(TString)}

\* What the caller's target may hold before the call.
Targets(ty) ==
  CASE ty.c = "String" -> {<<>>, Bytes(<<"z">>)}
    [] ty.c = "f32" -> {F32("fin", FALSE, 0, 0), F32("fin", FALSE, 9, 0)}
    [] ty = TVec(Tf32) -> {<<>>, <<F32("fin", FALSE, 9, 0)>>,
                           <<F32("fin", FALSE, 9, 0), F32("fin", FALSE, 8, 0)>>}
    [] ty = TVec(TString) -> {<<>>, <<Bytes(<<"z">>)>>}
    [] ty.c = "u32" -> {0, 7}
    [] ty = TOption(TString) -> {Absent, Present(Bytes(<<"z">>))}
    [] ty = TOption(Tf32) -> {Absent, Present(F32("fin", FALSE, 9, 0))}
    [] ty = THashMap(Tf32) ->
         {EmptyMap, insert(EmptyMap, Bytes(<<"z">>), F32("fin", FALSE, 9, 0))}
    [] ty = THashMap(TString) ->
         {EmptyMap, insert(EmptyMap, Bytes(<<"z">>), Bytes(<<"z">>))}
    [] OTHER -> {<<>>, << <<F32("fin", FALSE, 9, 0)>> >>}

InitDecode ==
  /\ s = <<>>
  /\ pos = 0
  /\ stack = <<>>
  /\ pc = "idle"
  /\ val = Null
  /\ err = ""
  /\ out = NoOut
  /\ dv \in DecodeValues
  /\ dty \in DecodeTypes
  /\ dkey = <<>>
  /\ res \in Targets(dty)
  /\ res0 = res
  /\ dpc = "call"
  /\ dok = FALSE

\* dpc names the call once it has returned: "done" is from_json.
FromJson ==
  /\ dpc = "call"
  /\ \E d \in from_json_any(dty, dv, res) :
       /\ res' = d.res
       /\ dok' = d.ok
  /\ dpc' = "done"
  /\ UNCHANGED <<s, pos, stack, pc, val, err, out, dv, dty, dkey, res0>>

\* extract_field(o, key, &mut res) on the object dv.
ExtractField ==
  /\ dpc = "call"
  /\ dv.t = "Object"
  /\ dty \in FieldTypes
  /\ \E key \in MemberKeys :
       /\ dkey' = key
       /\ res' = extract_field(dty, dv.o, key, res).res
       /\ dok' = extract_field(dty, dv.o, key, res).ok
  /\ dpc' = "extract_field"
  /\ UNCHANGED <<s, pos, stack, pc, val, err, out, dv, dty, res0>>

\* extract_optional_field(o, key, &mut res) on the object dv.
ExtractOptionalField ==
  /\ dpc = "call"
  /\ dv.t = "Object"
  /\ dty \in FieldTypes
  /\ \E key \in MemberKeys :
       /\ dkey' = key
       /\ res' = extract_optional_field(dty, dv.o, key, res).res
       /\ dok' = extract_optional_field(dty, dv.o, key, res).ok
  /\ dpc' = "extract_optional_field"
  /\ UNCHANGED <<s, pos, stack, pc, val, err, out, dv, dty, res0>>

NextDecode == FromJson \/ ExtractField \/ ExtractOptionalField

SpecDecode == InitDecode /\ [][NextDecode]_vars

---------------------------------------------------------------------------
(* Properties of parse *)

ExtraGoop == "Extra goop at the end of the file: {:?}"

UnicodeEOF == "Unexpected EOF when parsing unicode escape in string literal"

NotWhitespace(x) == ~is_whitespace(x)

\* The text without its whitespace bytes.
NoBlanks(text) == SelectSeq(text, NotWhitespace)

\* C1: parse ends with a Value or a ParseError on every input; no input ends it
\* in a panic.
C1_NeverPanics == pc # "panic"

\* C2: an open bracket followed, whitespace apart, by a close bracket parses to
\* the Array of no elements, and an open brace followed by a close brace to the
\* Object of no entries.
C2_EmptyContainers ==
  /\ (Returned(pc) /\ NoBlanks(s) = Bytes(<<"[", "]">>))
       => (pc = "Ok" /\ val = Array(<<>>))
  /\ (Returned(pc) /\ NoBlanks(s) = Bytes(<<"{", "}">>))
       => (pc = "Ok" /\ val = Object(EmptyMap))

\* A string-literal body made of plain chars and backslash-quote pairs only,
\* from index i on.
RECURSIVE PlainAndEscapedQuotes(_, _)
PlainAndEscapedQuotes(body, i) ==
  IF i > Len(body) THEN TRUE
  ELSE IF body[i] = chBackslash
  THEN i < Len(body) /\ body[i + 1] = chQuote /\ PlainAndEscapedQuotes(body, i + 2)
  ELSE body[i] \notin {chQuote, chLF} /\ PlainAndEscapedQuotes(body, i + 1)

\* Such a body with every backslash-quote pair read as one '"'.
RECURSIVE QuotesResolved(_, _)
QuotesResolved(body, i) ==
  IF i > Len(body) THEN <<>>
  ELSE IF body[i] = chBackslash THEN <<chQuote>> \o QuotesResolved(body, i + 2)
  ELSE <<body[i]>> \o QuotesResolved(body, i + 1)

Body(text) == SubSeq(text, 2, Len(text) - 1)

IsQuoted(text) == Len(text) >= 2 /\ text[1] = chQuote /\ text[Len(text)] = chQuote

\* C3: a backslash-quote pair inside a string literal does not end it and
\* yields one '"' in the String; the chars after it, up to the closing quote,
\* belong to the string too.
C3_EscapedQuote ==
  (/\ Returned(pc)
   /\ IsQuoted(s)
   /\ PlainAndEscapedQuotes(Body(s), 1)
   /\ \E i \in 1..Len(Body(s)) : Body(s)[i] = chBackslash)
  => (pc = "Ok" /\ val = String(QuotesResolved(Body(s), 1)))

\* The value of a hex digit, 'A'/'a' = 10 ... 'F'/'f' = 15; None for any other.
HexDigit(d) ==
  IF d >= ch0 /\ d <= ch9 THEN d - ch0
  ELSE IF d >= chUpperA /\ d <= chUpperA + 5 THEN d - chUpperA + 10
  ELSE IF d >= chLowerA /\ d <= chLowerA + 5 THEN d - chLowerA + 10
  ELSE None

\* A string literal that is one \uXXXX escape of four hex digits.
IsHexEscape(text) ==
  /\ Len(text) = 8
  /\ IsQuoted(text)
  /\ text[2] = chBackslash
  /\ text[3] = chLowerU
  /\ \A i \in 4..7 : HexDigit(text[i]) # None

\* C4: \uXXXX of four hex digits decodes to the one code point
\* d1 * 4096 + d2 * 256 + d3 * 16 + d4.
C4_UnicodeEscapeValue ==
  (Returned(pc) /\ IsHexEscape(s))
  => (/\ pc = "Ok"
      /\ val = String(<<HexDigit(s[4]) * 4096 + HexDigit(s[5]) * 256
                        + HexDigit(s[6]) * 16 + HexDigit(s[7])>>))

\* C5: parse returns Ok only with the cursor at the end of the input, and a
\* complete top-level value followed by a byte that is no whitespace makes it
\* return a ParseError and no Value.
C5_WholeInputConsumed ==
  /\ [](pc = "Ok" => pos = Len(s))
  /\ [][(pc = "finish" /\ \E i \in (pos + 1)..Len(s) : ~is_whitespace(s[i]))
          => (pc' = "Err" /\ err' = ExtraGoop /\ val' = Null)]_vars

C5_Witness == pc = "Err" /\ err = ExtraGoop /\ pos < Len(s) /\ out = NoOut

\* The bytes of a number or identifier token.
WordBytes == IdentifierChars \cup {chMinus, chPlus, chDot}

\* Whether index i of text lies inside a string literal (between an opening
\* quote and the next quote that no backslash escapes), scanning from index j
\* with instr telling whether j is inside one.
RECURSIVE InString(_, _, _, _)
InString(text, i, j, instr) ==
  IF j = i THEN instr
  ELSE IF instr /\ text[j] = chBackslash /\ j + 1 < i
  THEN InString(text, i, j + 2, TRUE)
  ELSE IF instr /\ text[j] = chBackslash THEN TRUE
  ELSE IF text[j] = chQuote THEN InString(text, i, j + 1, ~instr)
  ELSE InString(text, i, j + 1, instr)

\* The whitespace bytes between tokens: those outside every string literal.
IsBlank(text, i) == is_whitespace(text[i]) /\ ~InString(text, i, 1, FALSE)

\* The text with the whitespace between its tokens removed.
RECURSIVE SqueezedFrom(_, _)
SqueezedFrom(text, i) ==
  IF i > Len(text) THEN <<>>
  ELSE IF IsBlank(text, i) THEN SqueezedFrom(text, i + 1)
  ELSE <<text[i]>> \o SqueezedFrom(text, i + 1)

Squeezed(text) == SqueezedFrom(text, 1)

\* No run of blanks of the text lies inside a number or identifier token: none
\* has a byte of such tokens on both of its sides.
BlanksBetweenTokens(text) ==
  \A i, j \in 1..Len(text) :
    (/\ i < j
     /\ text[i] \in WordBytes
     /\ text[j] \in WordBytes
     /\ ~InString(text, i, 1, FALSE)
     /\ ~InString(text, j, 1, FALSE)
     /\ \A k \in (i + 1)..(j - 1) : IsBlank(text, k))
    => j = i + 1

\* C6: whitespace before the first token, between two tokens and after the
\* last one does not change what parse returns: a text parses exactly when it
\* parses with all of that whitespace removed, and to the same Value.
C6_WhitespaceInsensitive ==
  (Returned(pc) /\ BlanksBetweenTokens(s))
  => (/\ (pc = "Ok") <=> (parse(Squeezed(s)).pc = "Ok")
      /\ pc = "Ok" => val = parse(Squeezed(s)).val)

C6_Witness ==
  /\ pc = "Ok"
  /\ out = NoOut
  /\ val = Array(<<Boolean(TRUE), Boolean(FALSE)>>)
  /\ Len(s) > Len(Squeezed(s)) + 5

\* The Object an object literal of the members ms stands for when the last
\* occurrence of a key wins; a member's value is what its text parses to.
LastWins(ms) ==
  [k \in {ms[i][1] : i \in 1..Len(ms)} |->
     parse(ms[CHOOSE i \in 1..Len(ms) :
                /\ ms[i][1] = k
                /\ \A j \in (i + 1)..Len(ms) : ms[j][1] # k][2]).val]

ObjectCases == {<<ObjectText(ms), LastWins(ms), ms>> : ms \in Members}

\* C7: an object literal with a key more than once parses to an Object with
\* one entry for the key, holding the value of its last occurrence; the Object
\* has as many entries as the literal has distinct keys.
C7_LastKeyWins ==
  (Returned(pc) /\ s \in ObjInputs)
  => \A c \in ObjectCases :
       s = c[1]
       => (/\ pc = "Ok"
           /\ val = Object(c[2])
           /\ Cardinality(DOMAIN val.o)
                = Cardinality({c[3][i][1] : i \in 1..Len(c[3])}))

C7_Witness ==
  /\ pc = "Ok"
  /\ s = Bytes(<<"{", "\"", "a", "\"", ":", "1", ",",
                 "\"", "a", "\"", ":", "n", "u", "l", "l", "}">>)
  /\ val = Object([k \in {Bytes(<<"a">>)} |-> Null])

\* A string literal whose body is plain chars, then \u, then fewer than four
\* plain chars before the closing quote.
TruncatedEscape(text) ==
  /\ IsQuoted(text)
  /\ \E k \in 1..(Len(Body(text)) - 1) :
       /\ Body(text)[k] = chBackslash
       /\ Body(text)[k + 1] = chLowerU
       /\ Len(Body(text)) - (k + 1) < 4
       /\ \A i \in 1..Len(Body(text)) :
            i \notin {k, k + 1} => Body(text)[i] \notin {chBackslash, chQuote, chLF}

\* C8: a string literal with fewer than four chars between \u and the closing
\* quote makes parse fail with ParseError("Unexpected EOF when parsing unicode
\* escape in string literal"), which decode returns as JSONError::ParseError;
\* no String is produced.
C8_TruncatedEscape ==
  (Returned(pc) /\ TruncatedEscape(s))
  => (/\ pc = "Err"
      /\ err = UnicodeEOF
      /\ val = Null
      /\ out # NoOut => (out.r = "ParseError" /\ out.e = UnicodeEOF))

C8_Witness ==
  /\ s = Bytes(<<"\"", "\\", "u", "0", "0", "\"">>)
  /\ pc = "Err"
  /\ out = [r |-> "ParseError", e |-> UnicodeEOF, v |-> <<>>]

---------------------------------------------------------------------------
(* Properties of the lexer's cursor and of the object arm *)

\* parse is about to call Lexer::token.
TokenCall == pc \in {"value", "arr_sep", "colon", "obj_sep"}

\* The byte that makes token call lex_number.
AtNumber(buf, p) == peek_byte(buf, p) = chMinus \/ is_digit(peek_byte(buf, p))

LoneMinus(buf, p) == peek_byte(buf, p) = chMinus /\ p + 1 = Len(buf)

NumberLexed(buf, p, r) ==
  IF LoneMinus(buf, p) THEN r.r = "Err"
  ELSE r.r = "Ok" /\ r.tok.k = "Number"

NumberLexedAt(buf, p) == AtNumber(buf, p) => NumberLexed(buf, p, lex_number(buf, p))

\* C14: number lexing, entered on '-' or a digit, returns a ParseError only
\* for a lone '-' at the end of the input; in every other case it returns a
\* Number token.
C14_NumberLexing ==
  TokenCall => NumberLexedAt(s, skip_whitespace(s, pos))

\* The innermost open activation is an object arm waiting for a key.
KeyPosition(stk) ==
  /\ stk # <<>>
  /\ stk[Len(stk)].k = "obj"
  /\ stk[Len(stk)].at = "key"

\* The token is a whole value other than a String.
NonStringValue(t) ==
  /\ t.r = "Ok"
  /\ \/ t.tok.k = "Number"
     \/ (t.tok.k = "Identifier" /\ t.tok.v \in {NULL_TOKEN, TRUE_TOKEN, FALSE_TOKEN})

\* The token closes the array or object of the innermost activation, which
\* stands at a key position of the object around it.
ContainerAsKey(t) ==
  /\ t.r = "Ok"
  /\ Len(stack) >= 2
  /\ KeyPosition(SubSeq(stack, 1, Len(stack) - 1))
  /\ \/ (pc = "arr_sep" /\ t.tok.k = "CloseBracket")
     \/ (pc = "obj_sep" /\ t.tok.k = "CloseBrace")

ObjectArmRejects(t) ==
  \/ (pc = "value" /\ KeyPosition(stack) /\ NonStringValue(t))
  \/ ContainerAsKey(t)
  \/ (pc = "colon" /\ t.r = "Ok" /\ t.tok.k # "Colon")
  \/ (pc = "obj_sep" /\ t.r = "Ok" /\ t.tok.k \notin {"Comma", "CloseBrace"})

\* C15: inside an object, a null, boolean, number, array or object at a key
\* position, a token other than ':' after the key, and a token other than ','
\* or '}' after the member value each make parse return a ParseError, and no
\* Object.
C15_ObjectSyntaxErrors ==
  [][ObjectArmRejects(token(s, pos)) => (pc' = "Err" /\ val' = Null)]_vars

C15_Witness ==
  /\ pc = "Err"
  /\ err = "Object keys must be strings.  Got {:?}"
  /\ Len(s) >= 5
  /\ s[1] = chOpenBrace
  /\ s[2] = chOpenBracket

\* The cursor is at the end of the input or at a byte that is not whitespace.
PastWhitespace(buf, p) == eof(buf, p) \/ ~is_whitespace(peek_byte(buf, p))

\* C17: after every call of token that returns a token, the cursor is at the
\* end of the input or at a byte that is not whitespace.
C17_NoWhitespaceAtCursor ==
  [][(TokenCall /\ token(s, pos).r = "Ok") => PastWhitespace(s, pos')]_vars

C17_Witness ==
  /\ pc = "arr_sep"
  /\ pos < Len(s)
  /\ pos >= 2
  /\ is_whitespace(s[pos])
  /\ is_whitespace(s[pos - 1])

\* C18: the cursor stays within 0..len and no lexer operation moves it back:
\* advance at the end of the input leaves it where it is, and advance,
\* skip_whitespace, token and the steps of parse leave it between where it
\* was and len.
CursorBounds ==
  /\ pos \in 0..Len(s)
  /\ advance(s, Len(s)) = Len(s)
  /\ advance(s, pos) \in pos..Len(s)
  /\ skip_whitespace(s, pos) \in pos..Len(s)
  /\ TokenCall => token(s, pos).pos \in pos..Len(s)

C18_CursorInvariant == []CursorBounds /\ [][pos' >= pos]_vars

C18_Witness ==
  /\ pc = "Err"
  /\ err = "Unexpected end of file while parsing string literal escape sequence"
  /\ pos = Len(s)
  /\ Len(s) >= 3

\* The deepest nesting of '[' and '{' in the text, outside its string literals.
RECURSIVE DepthFrom(_, _, _, _, _)
DepthFrom(text, j, instr, open, deepest) ==
  IF j > Len(text) THEN deepest
  ELSE IF instr /\ text[j] = chBackslash THEN DepthFrom(text, j + 2, TRUE, open, deepest)
  ELSE IF text[j] = chQuote THEN DepthFrom(text, j + 1, ~instr, open, deepest)
  ELSE IF instr THEN DepthFrom(text, j + 1, TRUE, open, deepest)
  ELSE IF text[j] \in {chOpenBracket, chOpenBrace}
  THEN DepthFrom(text, j + 1, FALSE, open + 1,
                 IF open + 1 > deepest THEN open + 1 ELSE deepest)
  ELSE IF text[j] \in {chCloseBracket, chCloseBrace}
  THEN DepthFrom(text, j + 1, FALSE, open - 1, deepest)
  ELSE DepthFrom(text, j + 1, FALSE, open, deepest)

NestingDepth(text) == DepthFrom(text, 1, FALSE, 0, 0)

\* What is left of the work of parse: the bytes after the cursor, and its return.
Remaining(p, c) == (Len(s) - p) + (IF Returned(c) THEN 0 ELSE 1)

\* An iteration of the string-scanning loop that does not exit calls advance
\* on a byte of the input, which moves the cursor by one.
ScanAdvances == \A q \in 0..(Len(s) - 1) : advance(s, q) = q + 1

\* C19: every call of token that returns a token moves the cursor forward, the
\* string-scanning loop moves it on every iteration that does not exit, every
\* step of parse before its return takes from what remains of the input (so
\* parse returns after at most len + 1 steps), and parse_ is never nested
\* deeper than the brackets and braces of the input.
C19_Progress ==
  /\ [](ScanAdvances /\ Len(stack) <= NestingDepth(s))
  /\ [][(TokenCall /\ token(s, pos).r = "Ok") => pos' > pos]_vars
  /\ [][~Returned(pc) => Remaining(pos', pc') < Remaining(pos, pc)]_vars

C19_Witness ==
  /\ pc = "arr_sep"
  /\ Len(stack) = 2
  /\ NestingDepth(s) = 2
  /\ pos < Len(s)

---------------------------------------------------------------------------
(* Properties of from_json *)

\* The decode of element i of the array dv into a fresh element.
ElemDecoded(i) == from_json(dty.of, dv.a[i], Default(dty.of))

\* C9: decoding an Array whose elements all decode yields a sequence of the
\* array's length whose i-th element is the decode of the array's i-th element,
\* whatever the target held before.
C9_VecDecodesInOrder ==
  (/\ dpc = "done"
   /\ dty.c = "Vec"
   /\ dv.t = "Array"
   /\ \A i \in 1..Len(dv.a) : ElemDecoded(i).ok)
  => (/\ dok
      /\ Len(res) = Len(dv.a)
      /\ \A i \in 1..Len(dv.a) : res[i] = ElemDecoded(i).res)

C9_Witness ==
  /\ dpc = "done"
  /\ dok
  /\ dty = TVec(Tf32)
  /\ dv.t = "Array"
  /\ Len(dv.a) = 2
  /\ dv.a[1] # dv.a[2]
  /\ Len(res0) = 2
  /\ res # res0

\* C10: when an element of the array fails to decode, the decode returns
\* DecodeError and the caller's target does not hold the elements decoded
\* before the failing one.
C10_VecFailsAtomically ==
  (/\ dpc = "done"
   /\ dty.c = "Vec"
   /\ dv.t = "Array"
   /\ \E i \in 1..Len(dv.a) : ~ElemDecoded(i).ok)
  => (/\ ~dok
      /\ \A n \in 1..Len(dv.a) :
           (/\ n > 1
            /\ ~ElemDecoded(n).ok
            /\ \A i \in 1..(n - 1) : ElemDecoded(i).ok)
           => res # [i \in 1..(n - 1) |-> ElemDecoded(i).res])

---------------------------------------------------------------------------
(* Properties of the field helpers and of the decode contract *)

Extracted == dpc \in {"extract_field", "extract_optional_field"}

\* C11: on an object without the key, extract_field returns DecodeError and
\* extract_optional_field returns Ok with the target as it was; on an object
\* with the key, both return what decoding the value under the key into the
\* target returns.
C11_FieldExtraction ==
  /\ (dpc = "extract_field" /\ dkey \notin DOMAIN dv.o) => ~dok
  /\ (dpc = "extract_optional_field" /\ dkey \notin DOMAIN dv.o)
       => (dok /\ res = res0)
  /\ (Extracted /\ dkey \in DOMAIN dv.o)
       => Decoded(dok, res) = T_from_json(dty, dv.o[dkey], res0)

C11_Witness ==
  /\ dpc = "extract_optional_field"
  /\ DOMAIN dv.o = {Bytes(<<"a">>)}
  /\ dkey = Bytes(<<"b">>)
  /\ dty = TVec(Tf32)
  /\ dok
  /\ res = Default(dty)

NoFraction(x) == x.m = 0 \/ x.e >= 0

\* Its integer part.
IntegerPart(x) ==
  IF x.e >= 0 THEN x.m * Pow10(x.e) ELSE x.m \div Pow10(0 - x.e)

Required(ty) ==
  CASE ty.c = "String" -> "String"
    [] ty.c = "f32" -> "Number"
    [] ty.c = "Vec" -> "Array"
    [] ty.c = "HashMap" -> "Object"

\* C16: from_json into String, f32, Vec<T> or HashMap<String, V> returns Ok
\* only on the variant the type requires; on any other variant it returns
\* DecodeError and the target is as it was.
C16_VariantChecked ==
  (dpc = "done" /\ dty.c \in {"String", "f32", "Vec", "HashMap"})
  => /\ dok => dv.t = Required(dty)
     /\ dv.t # Required(dty) => (~dok /\ res = res0)

C16_Witness ==
  /\ dpc = "done"
  /\ dty = THashMap(Tf32)
  /\ dv.t = "Array"
  /\ Len(dv.a) = 2
  /\ res0 # EmptyMap
  /\ ~dok
  /\ res = res0

====
